---- MODULE Spec2Model ----
(***************************************************************************)
(* nirinit: session save / restore against the niri compositor.           *)
(* Model of src/src/main.rs: save_session, restore_session and            *)
(* spawn_and_move_window, with the compositor (windows, workspaces, IPC   *)
(* replies) as the environment.                                           *)
(*                                                                         *)
(* Option<T> is modelled as a sequence: None is <<>>, Some(x) is <<x>>.    *)
(* Text (String, &str) is a sequence of byte values; TLA+ strings are     *)
(* used for tags and control positions only.                               *)
(***************************************************************************)
EXTENDS Integers, Sequences, FiniteSets, TLC

VARIABLES
  config,               \* Config { skip.apps, launch }
  args,                 \* Args { save_interval }, in seconds
  home,                 \* environment: what dirs::home_dir() returns
  term,                 \* main: the termination flag set by the signal handlers
  elapsed,              \* main: last_save.elapsed(), in milliseconds
  written,              \* ghost: the session that was serialized into the snapshot found at start
  file,                 \* the snapshot file at session_path
  live,                 \* compositor: the window list, in query order
  workspaces,           \* compositor: the workspace list
  pending,              \* compositor: spawned processes whose window is not mapped yet
  owner,                \* ghost: window id -> replay position of the spawn that made it (0: pre-existing)
  nextId,               \* compositor: next fresh window / workspace id
  pc,                   \* control position of the running call
  caller,               \* which call entered save_session ("restore" or "save")
  sorted_windows,       \* restore_session: the replay list
  cur,                  \* restore_session: position of the for loop in sorted_windows
  existing_window_ids,  \* spawn_and_move_window: ids seen before the spawn
  attempt,              \* spawn_and_move_window: polls done by the for _ in 0..20 loop
  new_window,           \* spawn_and_move_window: the window found by the poll (Option<id>)
  sv_windows,           \* save_session: reply of niri_windows() (Option<list>)
  sv_workspaces,        \* save_session: reply of niri_workspaces() (Option<list>)
  result,               \* return value of the call: "running", "Ok" or "Err"
  lastReq,              \* ghost: the last Action request sent on the IPC socket
  hist                  \* ghost: facts about the pass kept for the properties

vars == <<config, args, home, term, elapsed, written, file, live, workspaces, pending, owner, nextId, pc, caller,
          sorted_windows, cur, existing_window_ids, attempt, new_window,
          sv_windows, sv_workspaces, result, lastReq, hist>>

-----------------------------------------------------------------------------
(* Bounds of the model *)

MaxRecords == 2     \* records in a snapshot that is restored
MaxLive == 1        \* windows alive in the compositor before a restore
MaxSortLen == 3     \* records in a snapshot whose replay order is examined
MaxWindows == 2     \* windows alive in the compositor when a save is examined

(* Program constants *)

MaxPollAttempts == 20          \* for _ in 0..20
WINDOW_POLL_INTERVAL == 250    \* milliseconds slept before each poll

-----------------------------------------------------------------------------
(* Option and ordering helpers *)

None == <<>>
Some(x) == <<x>>

RECURSIVE StrLess(_, _)
\* <str as Ord>::lt : lexicographic on bytes, a proper prefix is smaller
StrLess(s, t) ==
  IF t = <<>> THEN FALSE
  ELSE IF s = <<>> THEN TRUE
  ELSE IF s[1] # t[1] THEN s[1] < t[1]
  ELSE StrLess(Tail(s), Tail(t))

\* <Option<&str> as Ord>::lt : None < Some(_), Some compares the payloads
OptStrLess(a, b) ==
  IF a = None THEN b # None
  ELSE IF b = None THEN FALSE
  ELSE StrLess(a[1], b[1])

\* <Option<u8> as Ord>::lt
OptIntLess(a, b) ==
  IF a = None THEN b # None
  ELSE IF b = None THEN FALSE
  ELSE a[1] < b[1]

\* the sort key of restore_session: (w.workspace_output, w.workspace_idx)
SortKey(w) == <<w.workspace_output, w.workspace_idx>>

KeyLessBadOrder(k1, k2) ==
  \/ OptIntLess(k1[2], k2[2])
  \/ k1[2] = k2[2] /\ OptStrLess(k1[1], k2[1])

\* tuple Ord: first component decides, second breaks ties
KeyLess(k1, k2) ==
  \/ OptStrLess(k1[1], k2[1])
  \/ k1[1] = k2[1] /\ OptIntLess(k1[2], k2[2])

RECURSIVE InsertByKey(_, _)
\* stable insertion: w goes after every element whose key is <= its key
InsertByKey(s, w) ==
  IF s = <<>> THEN <<w>>
  ELSE IF KeyLess(SortKey(w), SortKey(s[1])) THEN <<w>> \o s
  ELSE <<s[1]>> \o InsertByKey(Tail(s), w)

SortByKeyNone(s) == s

RECURSIVE SortByKey(_)
\* Vec::sort_by_key: a stable sort, ascending in the key
SortByKey(s) ==
  IF s = <<>> THEN <<>>
  ELSE InsertByKey(SortByKey(SubSeq(s, 1, Len(s) - 1)), s[Len(s)])

-----------------------------------------------------------------------------
(* Text values of the inputs *)

AppA == <<97>>         \* an app_id, "a"
AppB == <<98>>         \* an app_id, "b"
CmdX == <<120>>        \* a launch command, "x"
TitleT == <<116>>      \* a window title, "t"
NameN == <<110>>       \* a workspace name, "n"

-----------------------------------------------------------------------------
(* Snapshot format: serde_json of Vec<SessionWindow> *)

\* the digit of n (0..15) in lower-case hexadecimal
HexDigit(n) == IF n < 10 THEN 48 + n ELSE 87 + n

\* serde_json's escape of one byte of a string: \" and \\, the short forms
\* \b \t \n \f \r, \u00XX for the other control bytes, the byte itself otherwise
EscapeByte(b) ==
  CASE b = 34 -> <<92, 34>>
    [] b = 92 -> <<92, 92>>
    [] b = 8 -> <<92, 98>>
    [] b = 9 -> <<92, 116>>
    [] b = 10 -> <<92, 110>>
    [] b = 12 -> <<92, 102>>
    [] b = 13 -> <<92, 114>>
    [] b < 32 -> <<92, 117, 48, 48, HexDigit(b \div 16), HexDigit(b % 16)>>
    [] OTHER -> <<b>>

RECURSIVE EscapeJson(_)
\* the text between the quotes of a JSON string written by serde_json
EscapeJson(s) ==
  IF s = <<>> THEN <<>> ELSE EscapeByte(s[1]) \o EscapeJson(Tail(s))

HexValue(c) == IF c < 58 THEN c - 48 ELSE c - 87

RECURSIVE UnescapeJson(_)
\* the String that serde_json reads from the text between the quotes
UnescapeJson(t) ==
  IF t = <<>> THEN <<>>
  ELSE IF t[1] # 92 THEN <<t[1]>> \o UnescapeJson(Tail(t))
  ELSE IF t[2] = 117
       THEN <<16 * HexValue(t[5]) + HexValue(t[6])>> \o UnescapeJson(SubSeq(t, 7, Len(t)))
       ELSE <<CASE t[2] = 98 -> 8
                [] t[2] = 116 -> 9
                [] t[2] = 110 -> 10
                [] t[2] = 102 -> 12
                [] t[2] = 114 -> 13
                [] OTHER -> t[2]>> \o UnescapeJson(SubSeq(t, 3, Len(t)))

\* the text between the quotes holds an escape sequence
HasEscape(t) == \E i \in 1..Len(t) : t[i] = 92

JNull == <<"null">>
JStr(s) == <<"string", EscapeJson(s)>>
JNum(n) == <<"number", n>>
JBool(b) == <<"bool", b>>
JPair(p) == <<"array", p[1], p[2]>>

OptStrToJson(o) == IF o = None THEN JNull ELSE JStr(o[1])
OptNumToJson(o) == IF o = None THEN JNull ELSE JNum(o[1])
OptPairToJson(o) == IF o = None THEN JNull ELSE JPair(o[1])

JsonToOpt(j) == IF j = JNull THEN None ELSE Some(j[2])

\* Option<String>: the string is read into an owned String, escapes resolved
JsonToOptString(j) == IF j = JNull THEN None ELSE Some(UnescapeJson(j[2]))

\* Option<&str>: the string is borrowed from the input text as it stands
JsonToOptBorrowed(j) == IF j = JNull THEN None ELSE Some(j[2])

\* a &str can be borrowed from the input only when the text holds no escape
\* sequence; serde_json refuses the string otherwise ("expected a borrowed string")
Borrowable(j) == j = JNull \/ ~HasEscape(j[2])
JsonToOptPair(j) == IF j = JNull THEN None ELSE Some(<<j[2], j[3]>>)

SerializeWindow(w) ==
  [id               |-> JNum(w.id),
   app_id           |-> OptStrToJson(w.app_id),
   title            |-> OptStrToJson(w.title),
   launch_command   |-> OptStrToJson(w.launch_command),
   workspace_idx    |-> OptNumToJson(w.workspace_idx),
   workspace_name   |-> OptStrToJson(w.workspace_name),
   workspace_output |-> OptStrToJson(w.workspace_output),
   is_focused       |-> JBool(w.is_focused),
   window_size      |-> OptPairToJson(w.window_size)]

DeserializeWindow(j) ==
  [id               |-> j.id[2],
   app_id           |-> JsonToOptString(j.app_id),
   title            |-> JsonToOptString(j.title),
   launch_command   |-> JsonToOptString(j.launch_command),
   workspace_idx    |-> JsonToOpt(j.workspace_idx),
   workspace_name   |-> JsonToOptBorrowed(j.workspace_name),
   workspace_output |-> JsonToOptBorrowed(j.workspace_output),
   is_focused       |-> j.is_focused[2],
   window_size      |-> JsonToOptPair(j.window_size)]

\* serde_json::to_string_pretty(&session_windows)
Serialize(session) == [i \in 1..Len(session) |-> SerializeWindow(session[i])]

\* serde_json::from_str::<Vec<SessionWindow>>(&session_data) returns Ok
Deserializable(text) ==
  \A i \in 1..Len(text) :
    Borrowable(text[i].workspace_name) /\ Borrowable(text[i].workspace_output)

\* serde_json::from_str::<Vec<SessionWindow>>(&session_data)
Deserialize(text) == [i \in 1..Len(text) |-> DeserializeWindow(text[i])]

NoFile == [exists |-> FALSE, empty |-> TRUE, json |-> <<>>]
EmptyFile == [exists |-> TRUE, empty |-> TRUE, json |-> <<>>]
FileOf(json) == [exists |-> TRUE, empty |-> FALSE, json |-> json]

\* what only main and its environment change
MAIN == <<args, home, term, elapsed, written>>

-----------------------------------------------------------------------------
(* The compositor (niri), seen through the IPC requests the program sends *)

IdsOf(windows) == {windows[i].id : i \in 1..Len(windows)}

\* index of the first element of s satisfying P, 0 if there is none (Iterator::find)
FirstIndex(s, P(_)) ==
  IF \E i \in 1..Len(s) : P(s[i])
  THEN CHOOSE i \in 1..Len(s) : P(s[i]) /\ \A j \in 1..(i - 1) : ~P(s[j])
  ELSE 0

WindowById(id) == live[FirstIndex(live, LAMBDA w : w.id = id)]

\* the output a window is on: the output of its workspace
OutputOfWindow(id) ==
  LET w == WindowById(id)
      k == FirstIndex(workspaces, LAMBDA ws : w.workspace_id = Some(ws.id))
  IN IF k = 0 THEN None ELSE workspaces[k].output

MaxIdxOn(out) ==
  LET S == {workspaces[i].idx : i \in {j \in 1..Len(workspaces) : workspaces[j].output = out}}
  IN IF S = {} THEN 0 ELSE CHOOSE m \in S : \A x \in S : x <= m

\* the window list after window id has been put on workspace wsid
Placed(id, wsid) ==
  [i \in 1..Len(live) |->
     IF live[i].id = id THEN [live[i] EXCEPT !.workspace_id = Some(wsid)] ELSE live[i]]

\* Action::MoveWindowToMonitor handled by the compositor
DoMoveToMonitor(id, output) ==
  LET k == FirstIndex(workspaces, LAMBDA ws : ws.output = Some(output))
  IN IF k # 0
     THEN /\ live' = Placed(id, workspaces[k].id)
          /\ UNCHANGED <<workspaces, nextId>>
     ELSE /\ workspaces' = Append(workspaces,
                [id |-> nextId, idx |-> 1, name |-> None, output |-> Some(output)])
          /\ live' = Placed(id, nextId)
          /\ nextId' = nextId + 1

\* Action::MoveWindowToWorkspace handled by the compositor: the workspace is
\* created when it does not exist (main.rs, comment at the request)
DoMoveToWorkspace(id, ref) ==
  LET out == OutputOfWindow(id)
      k == IF ref[1] = "Name"
           THEN FirstIndex(workspaces, LAMBDA ws : ws.name = Some(ref[2]))
           ELSE FirstIndex(workspaces, LAMBDA ws : ws.output = out /\ ws.idx = ref[2])
      made == IF ref[1] = "Name"
              THEN [id |-> nextId, idx |-> MaxIdxOn(out) + 1, name |-> Some(ref[2]), output |-> out]
              ELSE [id |-> nextId, idx |-> ref[2], name |-> None, output |-> out]
  IN IF k # 0
     THEN /\ live' = Placed(id, workspaces[k].id)
          /\ UNCHANGED <<workspaces, nextId>>
     ELSE /\ workspaces' = Append(workspaces, made)
          /\ live' = Placed(id, nextId)
          /\ nextId' = nextId + 1

\* Action::SetWindowWidth / SetWindowHeight handled by the compositor
DoResize(id, which, value) ==
  /\ live' = [i \in 1..Len(live) |->
       IF live[i].id = id
       THEN [live[i] EXCEPT !.window_size =
               IF which = "width" THEN <<value, @[2]>> ELSE <<@[1], value>>]
       ELSE live[i]]
  /\ UNCHANGED <<workspaces, nextId>>

\* a spawned process maps its window; it shows up in later window lists.
\* The program sees the window list only through niri_windows(), so the step
\* is taken just before such a query (the other interleavings differ in nothing
\* the program or the compositor state can tell apart)
MapWindow ==
  /\ pc \in {"pre_query", "poll_query"}
  /\ \E p \in pending :
       /\ pending' = pending \ {p}
       /\ live' = Append(live,
            [id |-> nextId, app_id |-> Some(p.app_id), title |-> None,
             workspace_id |-> IF workspaces = <<>> THEN None ELSE Some(workspaces[1].id),
             is_focused |-> FALSE, window_size |-> <<1, 1>>])
       /\ owner' = owner @@ (nextId :> p.owner)
       /\ nextId' = nextId + 1
  /\ UNCHANGED MAIN
  /\ UNCHANGED <<config, file, workspaces, pc, caller, sorted_windows, cur,
                 existing_window_ids, attempt, new_window, sv_windows,
                 sv_workspaces, result, lastReq, hist>>

-----------------------------------------------------------------------------
(* Ghost state *)

NoReq == [kind |-> "None", rec |-> 0, win |-> None, arg |-> None, outcome |-> "Handled"]

Req(kind, win, arg, outcome) ==
  [kind |-> kind, rec |-> cur, win |-> win, arg |-> arg, outcome |-> outcome]

NoHist ==
  [rec |-> 0, outcome |-> "None", fail |-> "None", acked |-> FALSE, polls |-> 0,
   slept_ms |-> 0, pre_ids |-> {}, bootstrap |-> FALSE, prev_json |-> <<>>,
   saves_after_term |-> 0, save_at_term |-> FALSE]

\* what a Socket::send can come to: io error, Reply::Err(_), Reply::Ok(Handled)
SendOutcomes == {"SendErr", "ReplyErr", "Handled"}

-----------------------------------------------------------------------------
(* save_session *)

\* find_workspace_for_window: the first workspace whose id is the window's workspace_id
find_workspace_for_window(window, wss) ==
  LET k == FirstIndex(wss, LAMBDA w : window.workspace_id = Some(w.id))
  IN IF k = 0 THEN None ELSE Some(wss[k])

LaunchCommandNoFallback(app_id) ==
  IF app_id = None THEN None
  ELSE IF app_id[1] \in DOMAIN config.launch THEN Some(config.launch[app_id[1]])
  ELSE None

\* config.launch.get(app_id).cloned().or_else(|| Some(app_id.clone())), under and_then
LaunchCommand(app_id) ==
  IF app_id = None THEN None
  ELSE IF app_id[1] \in DOMAIN config.launch THEN Some(config.launch[app_id[1]])
  ELSE Some(app_id[1])

\* the SessionWindow built for one live window
SessionWindowOf(window, wss) ==
  LET workspace == find_workspace_for_window(window, wss)
  IN [id               |-> window.id,
      app_id           |-> window.app_id,
      title            |-> window.title,
      launch_command   |-> LaunchCommand(window.app_id),
      workspace_idx    |-> IF workspace = None THEN None ELSE Some(workspace[1].idx),
      workspace_name   |-> IF workspace = None THEN None ELSE workspace[1].name,
      workspace_output |-> IF workspace = None THEN None ELSE workspace[1].output,
      is_focused       |-> window.is_focused,
      window_size      |-> Some(window.window_size)]

SessionWindowsMerged(windows, wss) ==
  Deserialize(file.json) \o [i \in 1..Len(windows) |-> SessionWindowOf(windows[i], wss)]

\* windows.into_iter().map(..).collect::<Vec<_>>()
SessionWindows(windows, wss) ==
  [i \in 1..Len(windows) |-> SessionWindowOf(windows[i], wss)]

AfterBootstrapFallThrough == "restore"

\* restore_session after its bootstrap save: save_session(..)?; return Ok(());
AfterBootstrap == "done"

AfterPeriodicSaveFatal(res) == IF res = "Ok" THEN "main_reset" ELSE "exited"

\* main after a periodic save: if let Err(report) = save_session(..) { error!(..) }
\* and then last_save = Instant::now()
AfterPeriodicSave(res) == "main_reset"

\* main after the final save: if let Err(report) = save_session(..) { error!(..) }
\* and then info!("shutdown complete"); Ok(())
AfterFinalSave(res) == "shutdown"

\* save_session returns to its caller
SaveReturn(res) ==
  /\ result' = res
  /\ pc' = CASE caller = "restore_session" -> IF res = "Ok" THEN AfterBootstrap ELSE "done"
             [] caller = "main_periodic" -> AfterPeriodicSave(res)
             [] caller = "main_final" -> AfterFinalSave(res)
             [] OTHER -> "done"

SaveQueryWindowsTruncating ==
  /\ pc = "save_windows"
  /\ \E ok \in BOOLEAN :
       IF ok
       THEN /\ sv_windows' = Some(live)
            /\ pc' = "save_workspaces"
            /\ UNCHANGED result
       ELSE /\ SaveReturn("Err")
            /\ UNCHANGED sv_windows
  /\ file' = EmptyFile
  /\ hist' = [hist EXCEPT !.prev_json = file.json,
                          !.fail = IF pc' = "save_workspaces" THEN @ ELSE "save_windows"]
  /\ UNCHANGED MAIN
  /\ UNCHANGED <<config, live, workspaces, pending, owner, nextId, caller,
                 sorted_windows, cur, existing_window_ids, attempt, new_window,
                 sv_workspaces, lastReq>>

\* let windows = niri_windows()?;
SaveQueryWindows ==
  /\ pc = "save_windows"
  /\ \E ok \in BOOLEAN :
       IF ok
       THEN /\ sv_windows' = Some(live)
            /\ pc' = "save_workspaces"
            /\ UNCHANGED result
       ELSE /\ SaveReturn("Err")
            /\ UNCHANGED sv_windows
  /\ hist' = [hist EXCEPT !.prev_json = file.json,
                          !.fail = IF pc' = "save_workspaces" THEN @ ELSE "save_windows"]
  /\ UNCHANGED MAIN
  /\ UNCHANGED <<config, file, live, workspaces, pending, owner, nextId, caller,
                 sorted_windows, cur, existing_window_ids, attempt, new_window,
                 sv_workspaces, lastReq>>

\* let workspaces = niri_workspaces()?;
SaveQueryWorkspaces ==
  /\ pc = "save_workspaces"
  /\ \E ok \in BOOLEAN :
       IF ok
       THEN /\ sv_workspaces' = Some(workspaces)
            /\ pc' = "save_write"
            /\ UNCHANGED result
       ELSE /\ SaveReturn("Err")
            /\ UNCHANGED sv_workspaces
  /\ hist' = [hist EXCEPT !.fail = IF pc' = "save_write" THEN @ ELSE "save_workspaces"]
  /\ UNCHANGED MAIN
  /\ UNCHANGED <<config, file, live, workspaces, pending, owner, nextId, caller,
                 sorted_windows, cur, existing_window_ids, attempt, new_window,
                 sv_windows, lastReq>>

\* serialize and fs::write(file_path, json_data)?; a failed write leaves the
\* old file, or the file truncated by the open that precedes the write
SaveWrite ==
  /\ pc = "save_write"
  /\ \E ok \in BOOLEAN :
       IF ok
       THEN /\ file' = FileOf(Serialize(SessionWindows(sv_windows[1], sv_workspaces[1])))
            /\ SaveReturn("Ok")
       ELSE /\ file' \in {file, EmptyFile}
            /\ SaveReturn("Err")
  /\ hist' = [hist EXCEPT !.fail = IF result' = "Ok" THEN @ ELSE "save_write"]
  /\ UNCHANGED MAIN
  /\ UNCHANGED <<config, live, workspaces, pending, owner, nextId, caller,
                 sorted_windows, cur, existing_window_ids, attempt, new_window,
                 sv_windows, sv_workspaces, lastReq>>

-----------------------------------------------------------------------------
(* restore_session and spawn_and_move_window *)

REST == <<config, args, home, term, elapsed, written, file, caller,
         sorted_windows, sv_windows, sv_workspaces>>

SkippedNever(w) == FALSE

\* config.skip.apps.contains(launch_command)
Skipped(w) == w.launch_command[1] \in config.skip.apps

\* "jetbrains-"
JetbrainsPrefix == <<106, 101, 116, 98, 114, 97, 105, 110, 115, 45>>

\* str::starts_with
StartsWith(s, prefix) ==
  Len(s) >= Len(prefix) /\ SubSeq(s, 1, Len(prefix)) = prefix

\* str::find(char): the position of the first occurrence, 0 for None
Find(s, c) == FirstIndex(s, LAMBDA b : b = c)

\* str::replacen(c, to, 1): the first occurrence of c replaced
ReplaceFirst(s, c, to) ==
  LET k == Find(s, c)
  IN IF k = 0 THEN s ELSE SubSeq(s, 1, k - 1) \o to \o SubSeq(s, k + 1, Len(s))

\* Path::to_str().unwrap_or(""): the path as text, "" when it is not UTF-8
\* (a byte 255 never occurs in UTF-8)
PathText(path) == IF \E i \in 1..Len(path) : path[i] = 255 THEN <<>> ELSE path

\* extract_jetbrains_project_path: the text between the first '[' (91) and
\* the first ']' (93) of the title, a leading '~' (126) expanded
extract_jetbrains_project_path(title) ==
  LET start == Find(title, 91)
      end == Find(title, 93)
  IN IF start = 0 \/ end = 0 THEN None
     ELSE IF start >= end THEN None
     ELSE LET path == SubSeq(title, start + 1, end - 1) IN
          IF StartsWith(path, <<126>>)
          THEN IF home = None THEN None
               ELSE Some(ReplaceFirst(path, 126, PathText(home[1])))
          ELSE Some(path)

\* the command vector of the spawn: for a jetbrains-* app_id the launch
\* command and the project path of the title, when there is one; the launch
\* command alone for the other applications (the microsoft-edge and kitty
\* branches read Edge's cache and the host name: no input of the model has
\* these app_ids)
BuildCommand(w) ==
  IF StartsWith(w.app_id[1], JetbrainsPrefix) /\ w.title # None
  THEN LET project_path == extract_jetbrains_project_path(w.title[1])
       IN IF project_path = None
          THEN <<w.launch_command[1]>>
          ELSE <<w.launch_command[1], project_path[1]>>
  ELSE <<w.launch_command[1]>>

WorkspaceReferenceIdxFirst(w) ==
  IF w.workspace_idx # None THEN Some(<<"Index", w.workspace_idx[1]>>)
  ELSE IF w.workspace_name # None THEN Some(<<"Name", w.workspace_name[1]>>)
  ELSE None

WorkspaceReferenceDefaultIndex(w) ==
  IF w.workspace_name # None THEN Some(<<"Name", w.workspace_name[1]>>)
  ELSE IF w.workspace_idx # None THEN Some(<<"Index", w.workspace_idx[1]>>)
  ELSE Some(<<"Index", 1>>)

\* named workspace first, then the index, else nothing to place
WorkspaceReference(w) ==
  IF w.workspace_name # None THEN Some(<<"Name", w.workspace_name[1]>>)
  ELSE IF w.workspace_idx # None THEN Some(<<"Index", w.workspace_idx[1]>>)
  ELSE None

FindNewWindowAnyId(windows, app_id, existing) ==
  FirstIndex(windows, LAMBDA w : w.app_id = Some(app_id))

\* windows.iter().find(|w| w.app_id == Some(app_id) && !existing_window_ids.contains(&w.id))
FindNewWindow(windows, app_id, existing) ==
  FirstIndex(windows, LAMBDA w : w.app_id = Some(app_id) /\ w.id \notin existing)

SpawnResultStrict(o) == IF o = "Handled" THEN "acked" ELSE "fail"

\* .map_err(NiriError::Send)?; let Reply::Ok(Response::Handled) = reply else { return Ok(()) };
SpawnResult(o) ==
  CASE o = "SendErr" -> "fail"
    [] o = "ReplyErr" -> "unacked"
    [] OTHER -> "acked"

MoveWorkspaceFailedSendOnly(o) == o = "SendErr"

\* .map_err(NiriError::Send)?.map_err(NiriError::Reply)?
MoveWorkspaceFailed(o) == o # "Handled"

LoopDoneLate(n) == n > MaxPollAttempts

\* for _ in 0..20 has run all its turns
LoopDone(n) == n >= MaxPollAttempts

ReturnSameRecord(outcome) ==
  /\ pc' = "loop"
  /\ cur' = cur
  /\ hist' = [hist EXCEPT !.outcome = outcome]
  /\ UNCHANGED result

\* spawn_and_move_window returns Ok(()): the for loop of restore_session goes on
Return(outcome) ==
  /\ pc' = "loop"
  /\ cur' = cur + 1
  /\ hist' = [hist EXCEPT !.outcome = outcome]
  /\ UNCHANGED result

\* an error leaves spawn_and_move_window by ? and restore_session by ?
Fail(step) ==
  /\ pc' = "done"
  /\ result' = "Err"
  /\ hist' = [hist EXCEPT !.outcome = "Error", !.fail = step]
  /\ UNCHANGED cur

RestoreStartSavesOnEmpty ==
  /\ pc = "restore"
  /\ IF ~file.exists \/ file.empty
     THEN /\ pc' = "save_windows"
          /\ hist' = [hist EXCEPT !.bootstrap = TRUE]
          /\ UNCHANGED <<sorted_windows, cur, result>>
     ELSE IF ~Deserializable(file.json)
     THEN /\ pc' = "done"
          /\ result' = "Err"
          /\ hist' = [hist EXCEPT !.fail = "deserialize"]
          /\ UNCHANGED <<sorted_windows, cur>>
     ELSE /\ sorted_windows' = SortByKey(Deserialize(file.json))
          /\ cur' = 1
          /\ pc' = "loop"
          /\ UNCHANGED <<result, hist>>
  /\ UNCHANGED MAIN
  /\ UNCHANGED <<config, file, live, workspaces, pending, owner, nextId, caller,
                 existing_window_ids, attempt, new_window, sv_windows,
                 sv_workspaces, lastReq>>

\* if !session_path.exists() { save_session()?; return Ok(()) }; read;
\* deserialize (?); sort
RestoreStart ==
  /\ pc = "restore"
  /\ IF ~file.exists
     THEN /\ pc' = "save_windows"
          /\ hist' = [hist EXCEPT !.bootstrap = TRUE]
          /\ UNCHANGED <<sorted_windows, cur, result>>
     ELSE IF file.empty
     THEN /\ pc' = "done"
          /\ result' = "Ok"
          /\ UNCHANGED <<sorted_windows, cur, hist>>
     ELSE IF ~Deserializable(file.json)
     THEN /\ pc' = "done"
          /\ result' = "Err"
          /\ hist' = [hist EXCEPT !.fail = "deserialize"]
          /\ UNCHANGED <<sorted_windows, cur>>
     ELSE /\ sorted_windows' = SortByKey(Deserialize(file.json))
          /\ cur' = 1
          /\ pc' = "loop"
          /\ UNCHANGED <<result, hist>>
  /\ UNCHANGED MAIN
  /\ UNCHANGED <<config, file, live, workspaces, pending, owner, nextId, caller,
                 existing_window_ids, attempt, new_window, sv_windows,
                 sv_workspaces, lastReq>>

RestoreLoopLaunchesAppId ==
  /\ pc = "loop"
  /\ IF cur > Len(sorted_windows)
     THEN /\ pc' = "done"
          /\ result' = "Ok"
          /\ UNCHANGED <<cur, hist, existing_window_ids, attempt, new_window>>
     ELSE LET w == sorted_windows[cur] IN
          IF w.app_id = None \/ (w.launch_command # None /\ Skipped(w))
          THEN /\ cur' = cur + 1
               /\ hist' = [NoHist EXCEPT !.rec = cur, !.bootstrap = hist.bootstrap,
                             !.outcome = IF w.app_id = None THEN "NoAppId" ELSE "Skipped"]
               /\ UNCHANGED <<pc, result, existing_window_ids, attempt, new_window>>
          ELSE /\ pc' = "connect"
               /\ hist' = [NoHist EXCEPT !.rec = cur, !.bootstrap = hist.bootstrap,
                                              !.outcome = "Running"]
               /\ existing_window_ids' = {}
               /\ attempt' = 0
               /\ new_window' = None
               /\ UNCHANGED <<cur, result>>
  /\ UNCHANGED <<live, workspaces, pending, owner, nextId, lastReq>>
  /\ UNCHANGED REST

\* one turn of: for window in sorted_windows { ... }
RestoreLoop ==
  /\ pc = "loop"
  /\ IF cur > Len(sorted_windows)
     THEN /\ pc' = "done"
          /\ result' = "Ok"
          /\ UNCHANGED <<cur, hist, existing_window_ids, attempt, new_window>>
     ELSE LET w == sorted_windows[cur] IN
          IF w.launch_command = None \/ Skipped(w) \/ w.app_id = None
          THEN /\ cur' = cur + 1
               /\ hist' = [NoHist EXCEPT !.rec = cur, !.bootstrap = hist.bootstrap,
                             !.outcome = IF w.launch_command = None THEN "NoCommand"
                                         ELSE IF Skipped(w) THEN "Skipped"
                                         ELSE "NoAppId"]
               /\ UNCHANGED <<pc, result, existing_window_ids, attempt, new_window>>
          ELSE /\ pc' = "connect"
               /\ hist' = [NoHist EXCEPT !.rec = cur, !.bootstrap = hist.bootstrap,
                                              !.outcome = "Running"]
               /\ existing_window_ids' = {}
               /\ attempt' = 0
               /\ new_window' = None
               /\ UNCHANGED <<cur, result>>
  /\ UNCHANGED <<live, workspaces, pending, owner, nextId, lastReq>>
  /\ UNCHANGED REST

\* let mut socket = Socket::connect().wrap_err(..)?;
Connect ==
  /\ pc = "connect"
  /\ \E ok \in BOOLEAN :
       IF ok
       THEN /\ pc' = "pre_query"
            /\ UNCHANGED <<cur, result, hist>>
       ELSE Fail("connect")
  /\ UNCHANGED <<live, workspaces, pending, owner, nextId, lastReq,
                 existing_window_ids, attempt, new_window>>
  /\ UNCHANGED REST

\* let existing_window_ids = niri_windows()?.iter().map(|w| w.id).collect();
PreQuery ==
  /\ pc = "pre_query"
  /\ \E ok \in BOOLEAN :
       IF ok
       THEN /\ existing_window_ids' = IdsOf(live)
            /\ hist' = [hist EXCEPT !.pre_ids = {live[i].id : i \in 1..Len(live)}]
            /\ pc' = "spawn"
            /\ UNCHANGED <<cur, result>>
       ELSE /\ Fail("pre_query")
            /\ UNCHANGED existing_window_ids
  /\ UNCHANGED <<live, workspaces, pending, owner, nextId, lastReq, attempt, new_window>>
  /\ UNCHANGED REST

\* socket.send(Request::Action(Action::Spawn { command })), the reply, and
\* the workspace reference
Spawn ==
  /\ pc = "spawn"
  /\ LET w == sorted_windows[cur] IN
     \E o \in SendOutcomes :
       /\ lastReq' = Req("Spawn", None, BuildCommand(w), o)
       /\ CASE SpawnResult(o) = "fail" ->
                 /\ Fail("spawn_send")
                 /\ UNCHANGED pending
            [] SpawnResult(o) = "unacked" ->
                 /\ Return("NotAcked")
                 /\ UNCHANGED pending
            [] OTHER ->
                 /\ pending' = pending \cup {[owner |-> cur, app_id |-> w.app_id[1]]}
                 /\ IF WorkspaceReference(w) = None
                    THEN /\ pc' = "loop"
                         /\ cur' = cur + 1
                         /\ hist' = [hist EXCEPT !.outcome = "NoTarget", !.acked = TRUE]
                         /\ UNCHANGED result
                    ELSE /\ pc' = "poll_sleep"
                         /\ hist' = [hist EXCEPT !.acked = TRUE]
                         /\ UNCHANGED <<cur, result>>
  /\ UNCHANGED <<live, workspaces, owner, nextId, existing_window_ids, attempt, new_window>>
  /\ UNCHANGED REST

\* the head of for _ in 0..20 and thread::sleep(WINDOW_POLL_INTERVAL);
\* after the last turn: warn and return Ok(())
PollSleep ==
  /\ pc = "poll_sleep"
  /\ IF LoopDone(attempt)
     THEN /\ Return("TimedOut")
          /\ UNCHANGED attempt
     ELSE /\ attempt' = attempt + 1
          /\ hist' = [hist EXCEPT !.slept_ms = @ + WINDOW_POLL_INTERVAL]
          /\ pc' = "poll_query"
          /\ UNCHANGED <<cur, result>>
  /\ UNCHANGED <<live, workspaces, pending, owner, nextId, lastReq,
                 existing_window_ids, new_window>>
  /\ UNCHANGED REST

\* let windows = niri_windows()?; and the search for the new window
PollQuery ==
  /\ pc = "poll_query"
  /\ LET w == sorted_windows[cur] IN
     \E ok \in BOOLEAN :
       IF ok
       THEN LET k == FindNewWindow(live, w.app_id[1], existing_window_ids) IN
            /\ IF k = 0
               THEN /\ pc' = "poll_sleep"
                    /\ hist' = [hist EXCEPT !.polls = @ + 1]
                    /\ UNCHANGED <<new_window, attempt>>
               ELSE \* every path from here returns: the loop counter is dead
                    /\ new_window' = Some(live[k].id)
                    /\ attempt' = 0
                    /\ hist' = [hist EXCEPT !.polls = 0, !.slept_ms = 0]
                    /\ pc' = IF w.workspace_output # None THEN "move_output" ELSE "move_ws"
            /\ UNCHANGED <<cur, result>>
       ELSE /\ Fail("poll_query")
            /\ UNCHANGED <<new_window, attempt>>
  /\ UNCHANGED <<live, workspaces, pending, owner, nextId, lastReq,
                 existing_window_ids>>
  /\ UNCHANGED REST

MoveOutputAborting ==
  /\ pc = "move_output"
  /\ LET w == sorted_windows[cur] IN
     \E o \in SendOutcomes :
       /\ lastReq' = Req("MoveWindowToMonitor", new_window, w.workspace_output[1], o)
       /\ IF o = "Handled"
          THEN /\ DoMoveToMonitor(new_window[1], w.workspace_output[1])
               /\ pc' = "move_ws"
               /\ UNCHANGED <<cur, result, hist>>
          ELSE /\ Fail("move_output")
               /\ UNCHANGED <<live, workspaces, nextId>>
  /\ UNCHANGED <<pending, owner, existing_window_ids, attempt, new_window>>
  /\ UNCHANGED REST

\* if let Some(output) = workspace_output && let Err(err) = socket.send(MoveWindowToMonitor)
\* { warn!(..) }: the reply is not looked at
MoveOutput ==
  /\ pc = "move_output"
  /\ LET w == sorted_windows[cur] IN
     \E o \in SendOutcomes :
       /\ lastReq' = Req("MoveWindowToMonitor", new_window, w.workspace_output[1], o)
       /\ IF o = "Handled"
          THEN DoMoveToMonitor(new_window[1], w.workspace_output[1])
          ELSE UNCHANGED <<live, workspaces, nextId>>
  /\ pc' = "move_ws"
  /\ UNCHANGED <<pending, owner, cur, result, hist, existing_window_ids, attempt, new_window>>
  /\ UNCHANGED REST

\* socket.send(MoveWindowToWorkspace).map_err(Send)?.map_err(Reply)?;
MoveWorkspace ==
  /\ pc = "move_ws"
  /\ LET w == sorted_windows[cur] IN
     \E o \in SendOutcomes :
       /\ lastReq' = Req("MoveWindowToWorkspace", new_window, WorkspaceReference(w)[1], o)
       /\ IF MoveWorkspaceFailed(o)
          THEN /\ Fail("move_ws")
               /\ UNCHANGED <<live, workspaces, nextId>>
          ELSE /\ IF o = "Handled"
                  THEN DoMoveToWorkspace(new_window[1], WorkspaceReference(w)[1])
                  ELSE UNCHANGED <<live, workspaces, nextId>>
               /\ IF w.window_size # None
                  THEN /\ pc' = "set_width"
                       /\ UNCHANGED <<cur, result, hist>>
                  ELSE Return("Done")
  /\ UNCHANGED <<pending, owner, existing_window_ids, attempt, new_window>>
  /\ UNCHANGED REST

\* if let Err(err) = socket.send(SetWindowWidth) { warn!(..) }
SetWidth ==
  /\ pc = "set_width"
  /\ LET w == sorted_windows[cur] IN
     \E o \in SendOutcomes :
       /\ lastReq' = Req("SetWindowWidth", new_window, w.window_size[1][1], o)
       /\ IF o = "Handled"
          THEN DoResize(new_window[1], "width", w.window_size[1][1])
          ELSE UNCHANGED <<live, workspaces, nextId>>
  /\ pc' = "set_height"
  /\ UNCHANGED <<pending, owner, cur, result, hist, existing_window_ids, attempt, new_window>>
  /\ UNCHANGED REST

\* if let Err(err) = socket.send(SetWindowHeight) { warn!(..) }; return Ok(())
SetHeight ==
  /\ pc = "set_height"
  /\ LET w == sorted_windows[cur] IN
     \E o \in SendOutcomes :
       /\ lastReq' = Req("SetWindowHeight", new_window, w.window_size[1][2], o)
       /\ IF o = "Handled"
          THEN DoResize(new_window[1], "height", w.window_size[1][2])
          ELSE UNCHANGED <<live, workspaces, nextId>>
  /\ Return("Done")
  /\ UNCHANGED <<pending, owner, existing_window_ids, attempt, new_window>>
  /\ UNCHANGED REST

-----------------------------------------------------------------------------
(* Inputs *)

Out1 == <<65>>         \* an output name, "A"
Out2 == <<65, 66>>     \* an output name that has Out1 as a proper prefix, "AB"
Size1 == <<3, 2>>      \* a window size (width, height)

Rec(app, launch, idx, name, output, size) ==
  [id |-> 1, app_id |-> app, title |-> None, launch_command |-> launch,
   workspace_idx |-> idx, workspace_name |-> name, workspace_output |-> output,
   is_focused |-> FALSE, window_size |-> size]

\* every combination of app_id and launch_command, placed alike
GatingPool ==
  {Rec(app, launch, Some(2), None, Some(Out1), Some(Size1)) :
     app \in {None, Some(AppA), Some(AppB)}, launch \in {None, Some(AppA), Some(CmdX)}}

\* every combination of the placement fields, for a record that is spawned
PlacementPool ==
  {Rec(Some(AppA), Some(AppA), idx, name, output, Some(Size1)) :
     idx \in {None, Some(2), Some(3)}, name \in {None, Some(NameN)},
     output \in {None, Some(Out1)}}
  \cup {Rec(Some(AppA), Some(AppA), idx, None, Some(Out2), Some(Size1)) : idx \in {Some(2), Some(3)}}
  \cup {Rec(Some(AppA), Some(AppA), Some(2), None, output, None) : output \in {None, Some(Out1)}}

RecordPool == GatingPool \cup PlacementPool

SeqsUpTo(S, n) == UNION {[1..k -> S] : k \in 0..n}

Snapshots == SeqsUpTo(RecordPool, MaxRecords)

NoLaunchMap == [k \in {} |-> CmdX]
Configs ==
  {[skip |-> [apps |-> s], launch |-> l] :
     s \in {{}, {CmdX}}, l \in {NoLaunchMap, [k \in {AppA} |-> CmdX]}}

Workspace1 == [id |-> 1, idx |-> 1, name |-> None, output |-> Some(Out1)]

\* a window that is alive before the call, on the first workspace if there is one
LiveWindow(id, app, wss) ==
  [id |-> id, app_id |-> app, title |-> None,
   workspace_id |-> IF wss = <<>> THEN None ELSE Some(wss[1].id),
   is_focused |-> FALSE, window_size |-> <<1, 1>>]

InitCompositor(wsChoices, appChoices) ==
  /\ workspaces \in wsChoices
  /\ \E apps \in SeqsUpTo(appChoices, MaxLive) :
       /\ live = [i \in 1..Len(apps) |-> LiveWindow(Len(workspaces) + i, apps[i], workspaces)]
       /\ owner = [i \in {Len(workspaces) + j : j \in 1..Len(apps)} |-> 0]
       /\ nextId = Len(workspaces) + Len(apps) + 1
  /\ pending = {}

HomeDir == <<47, 104>>  \* a home directory, "/h"

\* main before its loop, in an environment with a home directory
InitMain ==
  /\ args = [save_interval |-> 300]
  /\ home = Some(HomeDir)
  /\ term = FALSE
  /\ elapsed = 0
  /\ written = <<>>

InitLocals ==
  /\ sorted_windows = <<>>
  /\ cur = 0
  /\ existing_window_ids = {}
  /\ attempt = 0
  /\ new_window = None
  /\ sv_windows = None
  /\ sv_workspaces = None
  /\ result = "running"
  /\ lastReq = NoReq
  /\ hist = NoHist

\* main has loaded the config and calls restore_session(&config, &session_path)
Init ==
  /\ config \in {c \in Configs : c.launch # NoLaunchMap}
  /\ file \in {NoFile, EmptyFile} \cup {FileOf(Serialize(s)) : s \in Snapshots}
  /\ InitCompositor({<<>>, <<Workspace1>>}, {Some(AppA)})
  /\ pc = "restore"
  /\ caller = "restore_session"
  /\ InitLocals
  /\ InitMain

Next ==
  \/ RestoreStart
  \/ RestoreLoop
  \/ Connect
  \/ PreQuery
  \/ Spawn
  \/ PollSleep
  \/ PollQuery
  \/ MoveOutput
  \/ MoveWorkspace
  \/ SetWidth
  \/ SetHeight
  \/ SaveQueryWindows
  \/ SaveQueryWorkspaces
  \/ SaveWrite
  \/ MapWindow

Spec == Init /\ [][Next]_vars

-----------------------------------------------------------------------------
(* The replay order alone: restore_session over snapshots of records that
   have nothing to launch, with every combination of the sort key *)

Out3 == <<66>>         \* an output name that sorts after Out1 and Out2, "B"

SortKeys ==
  {<<o, i>> : o \in {None, Some(Out1), Some(Out2), Some(Out3)}, i \in {None, Some(1), Some(2)}}

\* the n-th record of a snapshot, as saved from window id n
KeyRec(n, k) ==
  [id |-> n, app_id |-> None, title |-> None, launch_command |-> None,
   workspace_idx |-> k[2], workspace_name |-> None, workspace_output |-> k[1],
   is_focused |-> FALSE, window_size |-> Some(Size1)]

SortSnapshots ==
  {[n \in 1..Len(ks) |-> KeyRec(n, ks[n])] : ks \in SeqsUpTo(SortKeys, MaxSortLen)}

InitSort ==
  /\ config = [skip |-> [apps |-> {}], launch |-> NoLaunchMap]
  /\ file \in {FileOf(Serialize(s)) : s \in SortSnapshots}
  /\ InitCompositor({<<>>}, {})
  /\ pc = "restore"
  /\ caller = "restore_session"
  /\ InitLocals
  /\ InitMain

NextSort ==
  \/ RestoreStart
  \/ RestoreLoop

SpecSort == InitSort /\ [][NextSort]_vars

-----------------------------------------------------------------------------
(* save_session alone: a periodic or final save over an existing snapshot *)

Workspace2 == [id |-> 2, idx |-> 2, name |-> Some(NameN), output |-> Some(Out2)]

\* window number n of the compositor's list
SaveWindow(n, app, title, wsid) ==
  [id |-> n, app_id |-> app, title |-> title, workspace_id |-> wsid,
   is_focused |-> (n = 1), window_size |-> <<n, 2>>]

SaveWindowKinds ==
  {<<app, title, wsid>> :
     app \in {None, Some(AppA), Some(AppB)}, title \in {None, Some(TitleT)},
     wsid \in {None, Some(1), Some(2)}}

SaveLists ==
  {[n \in 1..Len(ks) |-> SaveWindow(n, ks[n][1], ks[n][2], ks[n][3])] :
     ks \in SeqsUpTo(SaveWindowKinds, MaxWindows)}

\* a window closes while a save is between its two queries or before its write
CloseWindow ==
  /\ pc \in {"save_workspaces", "save_write"}
  /\ caller # "restore_session"
  /\ \E i \in 1..Len(live) :
       live' = [j \in 1..(Len(live) - 1) |-> IF j < i THEN live[j] ELSE live[j + 1]]
  /\ UNCHANGED MAIN
  /\ UNCHANGED <<config, file, workspaces, pending, owner, nextId, pc, caller,
                 sorted_windows, cur, existing_window_ids, attempt, new_window,
                 sv_windows, sv_workspaces, result, lastReq, hist>>

InitSave ==
  /\ config \in Configs
  /\ file \in {NoFile, EmptyFile,
               FileOf(Serialize(<<Rec(Some(AppB), Some(AppB), Some(1), None, Some(Out1), None)>>))}
  /\ workspaces \in {<<Workspace1>>, <<Workspace1, Workspace2>>}
  /\ live \in SaveLists
  /\ owner = [i \in IdsOf(live) |-> 0]
  /\ nextId = Len(live) + 1
  /\ pending = {}
  /\ pc = "save_windows"
  /\ caller = "save_session"
  /\ InitLocals
  /\ InitMain

NextSave ==
  \/ SaveQueryWindows
  \/ SaveQueryWorkspaces
  \/ SaveWrite
  \/ CloseWindow

SpecSave == InitSave /\ [][NextSave]_vars

-----------------------------------------------------------------------------
(* main: the periodic driver, from the loop that follows restore_session to
   the end of the process *)

SleepMs == 100         \* thread::sleep(Duration::from_millis(100))

COMPOSITOR == <<live, workspaces, pending, owner, nextId>>
RESTORE == <<sorted_windows, cur, existing_window_ids, attempt, new_window, lastReq>>

\* Duration::from_secs(args.save_interval), in milliseconds
SaveIntervalMs == args.save_interval * 1000

MaxSavesCounted == 3     \* saves counted after the termination flag is raised

\* ghost: the saves main has started with the flag already raised, counted up
\* to MaxSavesCounted
SavesAfterTerm(n) == IF term /\ n < MaxSavesCounted THEN n + 1 ELSE n

KeepRunningAlways == TRUE

\* !term.load(Ordering::Relaxed)
KeepRunning == ~term

\* the head of while !term.load(..) { .. }; after the loop: info!("shutting down...")
LoopHead ==
  /\ pc = "main_loop"
  /\ pc' = IF KeepRunning THEN "main_sleep" ELSE "shutting_down"
  /\ UNCHANGED <<config, args, home, term, elapsed, written, file, caller,
                 sv_windows, sv_workspaces, result, hist>>
  /\ UNCHANGED COMPOSITOR
  /\ UNCHANGED RESTORE

\* thread::sleep(100ms); if last_save.elapsed() >= interval { save_session(..) ..
\* The sleep lasts 100ms or longer; elapsed is kept up to the interval, beyond
\* which its value decides nothing
SleepAndCheck ==
  /\ pc = "main_sleep"
  /\ \E d \in {SleepMs, 5 * SleepMs} :
       LET now == IF elapsed + d >= SaveIntervalMs THEN SaveIntervalMs ELSE elapsed + d
       IN /\ elapsed' = now
          /\ IF now >= SaveIntervalMs
             THEN /\ pc' = "save_windows"
                  /\ caller' = "main_periodic"
                  /\ hist' = [hist EXCEPT !.fail = "None",
                                          !.saves_after_term = SavesAfterTerm(@)]
             ELSE /\ pc' = "main_loop"
                  /\ UNCHANGED <<caller, hist>>
  /\ UNCHANGED <<config, args, home, term, written, file, sv_windows, sv_workspaces, result>>
  /\ UNCHANGED COMPOSITOR
  /\ UNCHANGED RESTORE

ResetClockSkipsFlag ==
  /\ pc = "main_reset"
  /\ elapsed' = 0
  /\ pc' = "main_sleep"
  /\ UNCHANGED <<config, args, home, term, written, file, caller,
                 sv_windows, sv_workspaces, result, hist>>
  /\ UNCHANGED COMPOSITOR
  /\ UNCHANGED RESTORE

\* last_save = Instant::now();
ResetClock ==
  /\ pc = "main_reset"
  /\ elapsed' = 0
  /\ pc' = "main_loop"
  /\ UNCHANGED <<config, args, home, term, written, file, caller,
                 sv_windows, sv_workspaces, result, hist>>
  /\ UNCHANGED COMPOSITOR
  /\ UNCHANGED RESTORE

\* after the loop: if let Err(report) = save_session(&session_path, &config) ..
FinalSave ==
  /\ pc = "shutting_down"
  /\ pc' = "save_windows"
  /\ caller' = "main_final"
  /\ hist' = [hist EXCEPT !.fail = "None",
                          !.saves_after_term = SavesAfterTerm(@)]
  /\ UNCHANGED <<config, args, home, term, elapsed, written, file,
                 sv_windows, sv_workspaces, result>>
  /\ UNCHANGED COMPOSITOR
  /\ UNCHANGED RESTORE

\* info!("shutdown complete"); Ok(())
Exit ==
  /\ pc = "shutdown"
  /\ pc' = "exited"
  /\ result' = "Ok"
  /\ UNCHANGED <<config, args, home, term, elapsed, written, file, caller,
                 sv_windows, sv_workspaces, hist>>
  /\ UNCHANGED COMPOSITOR
  /\ UNCHANGED RESTORE

\* a termination signal arrives: the handler registered by flag::register
\* stores true in term
RaiseTerm ==
  /\ ~term
  /\ pc # "exited"
  /\ term' = TRUE
  /\ hist' = [hist EXCEPT !.save_at_term =
                 pc \in {"save_windows", "save_workspaces", "save_write"}]
  /\ UNCHANGED <<config, args, home, elapsed, written, file, pc, caller,
                 sv_windows, sv_workspaces, result>>
  /\ UNCHANGED COMPOSITOR
  /\ UNCHANGED RESTORE

\* the window lists the compositor may hold while the driver runs
DriverLists ==
  {<<>>,
   <<SaveWindow(1, Some(AppA), None, Some(1))>>,
   <<SaveWindow(1, Some(AppA), None, Some(1)), SaveWindow(2, Some(AppB), Some(TitleT), None)>>}

\* restore_session has returned Ok: the snapshot exists; last_save = Instant::now()
InitDriver ==
  /\ config = [skip |-> [apps |-> {}], launch |-> [k \in {AppA} |-> CmdX]]
  /\ args \in {[save_interval |-> n] : n \in {0, 1}}
  /\ home = Some(HomeDir)
  /\ term \in BOOLEAN
  /\ elapsed = 0
  /\ written = <<>>
  /\ file \in {EmptyFile,
               FileOf(Serialize(<<Rec(Some(AppB), Some(AppB), Some(1), None, Some(Out1), None)>>))}
  /\ workspaces = <<Workspace1>>
  /\ live \in DriverLists
  /\ owner = [i \in IdsOf(live) |-> 0]
  /\ nextId = Len(live) + 1
  /\ pending = {}
  /\ pc = "main_loop"
  /\ caller = "main"
  /\ InitLocals

\* the steps of the main thread
DriverStep ==
  \/ LoopHead
  \/ SleepAndCheck
  \/ ResetClock
  \/ FinalSave
  \/ Exit
  \/ SaveQueryWindows
  \/ SaveQueryWorkspaces
  \/ SaveWrite

NextDriver ==
  \/ LoopHead
  \/ SleepAndCheck
  \/ ResetClock
  \/ FinalSave
  \/ Exit
  \/ SaveQueryWindows
  \/ SaveQueryWorkspaces
  \/ SaveWrite
  \/ RaiseTerm
  \/ CloseWindow

\* the main thread keeps running: a sleep ends and an IPC call or a write
\* returns (with a result or with an error)
SpecDriver == InitDriver /\ [][NextDriver]_vars /\ WF_vars(DriverStep)

-----------------------------------------------------------------------------
(* The snapshot round trip: a session serialized as save_session serializes
   it (to_string_pretty) and read back by restore_session (from_str) *)

MaxRoundLen == 2       \* records in a session that is written and read back

AppQuote == <<97, 34>>            \* an app_id with a double quote
TitleNewline == <<116, 10, 92>>   \* a title with a line feed and a backslash
NameQuote == <<110, 34, 110>>     \* a workspace name with a double quote
OutBackslash == <<65, 92>>        \* an output name with a backslash

\* records from all optional fields absent to all fields present, with text
\* that serde_json writes as it stands and text that it escapes
RoundPool ==
  {[id               |-> IF full THEN 7 ELSE 0,
    app_id           |-> app,
    title            |-> title,
    launch_command   |-> IF full THEN Some(CmdX) ELSE None,
    workspace_idx    |-> IF full THEN Some(2) ELSE None,
    workspace_name   |-> name,
    workspace_output |-> output,
    is_focused       |-> full,
    window_size      |-> IF full THEN Some(Size1) ELSE None] :
     app \in {None, Some(AppQuote)}, title \in {None, Some(TitleNewline)},
     name \in {None, Some(NameN), Some(NameQuote)},
     output \in {None, Some(Out1), Some(OutBackslash)}, full \in BOOLEAN}

RoundSessions == SeqsUpTo(RoundPool, MaxRoundLen)

\* a session was written to the snapshot; the program starts and restores it
InitRound ==
  /\ config = [skip |-> [apps |-> {}], launch |-> NoLaunchMap]
  /\ written \in RoundSessions
  /\ file = FileOf(Serialize(written))
  /\ InitCompositor({<<>>}, {})
  /\ pc = "restore"
  /\ caller = "restore_session"
  /\ InitLocals
  /\ args = [save_interval |-> 300]
  /\ home = Some(HomeDir)
  /\ term = FALSE
  /\ elapsed = 0

NextRound ==
  \/ RestoreStart
  \/ RestoreLoop

SpecRound == InitRound /\ [][NextRound]_vars

-----------------------------------------------------------------------------
(* The spawn command: restore_session over a snapshot of one record of a
   JetBrains IDE (or of another application) with every short title *)

MaxTitleLen == 5       \* bytes in a window title

JetApp == JetbrainsPrefix \o <<112>>     \* "jetbrains-p"
HomeNotUtf8 == <<47, 255>>               \* a home directory that is not UTF-8

\* the titles over '[', ']', '~' and 'p'
Titles == SeqsUpTo({91, 93, 126, 112}, MaxTitleLen)

\* what dirs::home_dir() can return
Homes == {None, Some(HomeDir), Some(HomeNotUtf8)}

CommandRec(app, title) ==
  [id |-> 1, app_id |-> Some(app), title |-> title, launch_command |-> Some(CmdX),
   workspace_idx |-> None, workspace_name |-> None, workspace_output |-> None,
   is_focused |-> FALSE, window_size |-> None]

InitCommand ==
  /\ config = [skip |-> [apps |-> {}], launch |-> NoLaunchMap]
  /\ home \in Homes
  /\ \E app \in {JetApp, AppA}, title \in {None} \cup {Some(t) : t \in Titles} :
       file = FileOf(Serialize(<<CommandRec(app, title)>>))
  /\ InitCompositor({<<>>}, {})
  /\ pc = "restore"
  /\ caller = "restore_session"
  /\ InitLocals
  /\ args = [save_interval |-> 300]
  /\ term = FALSE
  /\ elapsed = 0
  /\ written = <<>>

NextCommand ==
  \/ RestoreStart
  \/ RestoreLoop
  \/ Connect
  \/ PreQuery
  \/ Spawn

SpecCommand == InitCommand /\ [][NextCommand]_vars

-----------------------------------------------------------------------------
(* Properties of restore_session *)

InSpawnCall ==
  pc \in {"connect", "pre_query", "spawn", "poll_sleep", "poll_query",
          "move_output", "move_ws", "set_width", "set_height"}

PlacementKinds ==
  {"MoveWindowToMonitor", "MoveWindowToWorkspace", "SetWindowWidth", "SetWindowHeight"}

SkipListed(w) == w.launch_command # None /\ w.launch_command[1] \in config.skip.apps

HasTarget(w) == w.workspace_name # None \/ w.workspace_idx # None

\* C1: a record whose launch_command is in config.skip.apps is never replayed:
\* spawn_and_move_window is never entered for it, no spawn or placement request
\* carries its position, and no process or window is ever made for it.
C1_SkipListedNeverReplayed ==
  \A i \in 1..Len(sorted_windows) :
    SkipListed(sorted_windows[i]) =>
      /\ lastReq.rec # i
      /\ InSpawnCall => cur # i
      /\ \A p \in pending : p.owner # i
      /\ \A id \in DOMAIN owner : owner[id] # i

\* a skip-listed record that has an app_id was passed over, and a record after it is being replayed
C1_Witness ==
  /\ hist.rec >= 2
  /\ SkipListed(sorted_windows[hist.rec - 1])
  /\ sorted_windows[hist.rec - 1].app_id # None
  /\ lastReq.kind = "Spawn"
  /\ lastReq.rec = hist.rec

\* the wait loop of the record at hist.rec has ended without a window being found
WaitEndedWithoutMatch ==
  /\ hist.rec >= 1
  /\ hist.acked
  /\ HasTarget(sorted_windows[hist.rec])
  /\ new_window = None
  /\ pc \in {"loop", "done"}

TimedOutCleanly ==
  /\ hist.polls = MaxPollAttempts
  /\ hist.slept_ms = MaxPollAttempts * WINDOW_POLL_INTERVAL
  /\ lastReq.kind = "Spawn"
  /\ lastReq.rec = hist.rec
  /\ result # "Err"
  /\ cur = hist.rec + 1

\* C2 as stated: after an acknowledged spawn with a target workspace, if no
\* matching window appears in any poll, the window list is queried exactly 20
\* times, no placement is sent, the call returns success and the pass goes on.
C2_Original == WaitEndedWithoutMatch => TimedOutCleanly

\* C2 amended: the same, provided no window-list query of the wait fails (a
\* failed query ends the wait at once with an error); and every query of the
\* wait is preceded by one sleep of WINDOW_POLL_INTERVAL.
C2_TimeoutAfterTwentyPolls ==
  /\ (WaitEndedWithoutMatch /\ hist.fail # "poll_query") => TimedOutCleanly
  /\ hist.outcome = "TimedOut" => WaitEndedWithoutMatch /\ hist.fail = "None"
  /\ pc = "poll_sleep" => hist.slept_ms = hist.polls * WINDOW_POLL_INTERVAL
  /\ pc = "poll_query" => hist.slept_ms = (hist.polls + 1) * WINDOW_POLL_INTERVAL
  /\ pc \in {"poll_sleep", "poll_query"} => lastReq.kind = "Spawn" /\ lastReq.rec = cur

\* a wait timed out and another record is still to be replayed
C2_Witness ==
  /\ hist.outcome = "TimedOut"
  /\ pc = "loop"
  /\ cur <= Len(sorted_windows)

\* C3: every placement request targets a window whose id was not in the window
\* list taken before the record's spawn and whose app_id is the record's app_id;
\* a window that was alive before the pass is never the target.
C3_PlacementTargetsNewWindow ==
  (lastReq.kind \in PlacementKinds /\ lastReq.rec = hist.rec) =>
    LET id == lastReq.win[1] IN
    /\ lastReq.win # None
    /\ id \notin hist.pre_ids
    /\ id \in IdsOf(live)
    /\ \A i \in 1..Len(live) :
         live[i].id = id => live[i].app_id = sorted_windows[lastReq.rec].app_id
    /\ owner[id] # 0

\* a window is placed while a window of the same app_id was alive before the spawn
C3_Witness ==
  /\ lastReq.kind \in PlacementKinds
  /\ lastReq.rec = hist.rec
  /\ \E i \in 1..Len(live) :
       /\ live[i].id \in hist.pre_ids
       /\ live[i].app_id = sorted_windows[lastReq.rec].app_id

\* C4: a failed move-to-workspace (send error or error reply) ends
\* restore_session with the error at once: it is the last request of the pass,
\* so no resize follows for that window and no later record is spawned.
C4_WorkspaceMoveFailureAborts ==
  /\ hist.fail = "move_ws" =>
       /\ pc = "done"
       /\ result = "Err"
       /\ lastReq.kind = "MoveWindowToWorkspace"
       /\ lastReq.outcome # "Handled"
       /\ lastReq.rec = hist.rec
       /\ cur = hist.rec
  /\ (lastReq.kind = "MoveWindowToWorkspace" /\ lastReq.outcome # "Handled") =>
       hist.fail = "move_ws" /\ lastReq.rec = hist.rec

\* the move failed for a record that has a size, with a record to spawn after it
C4_Witness ==
  /\ hist.fail = "move_ws"
  /\ lastReq.outcome = "ReplyErr"
  /\ sorted_windows[cur].window_size # None
  /\ cur < Len(sorted_windows)
  /\ sorted_windows[cur + 1].launch_command # None
  /\ ~SkipListed(sorted_windows[cur + 1])
  /\ sorted_windows[cur + 1].app_id # None

\* C5 as stated: after deserialization, the only compositor failure that
\* makes restore_session return an error is a failed move-to-workspace.
C5_Original == (result = "Err" /\ ~hist.bootstrap) => hist.fail = "move_ws"

\* C5 amended: restore_session returns an error for a failed connect, a failed
\* window-list query (before the spawn or in the wait), a failed send of the
\* spawn and a failed move-to-workspace, and for nothing else: a spawn that is
\* not acknowledged, a timeout, a failed move-to-output and a failed resize
\* are not propagated.
C5_PropagatedFailures ==
  /\ (result = "Err" /\ ~hist.bootstrap) =>
       /\ hist.fail \in {"connect", "pre_query", "spawn_send", "poll_query", "move_ws"}
       /\ hist.fail = "spawn_send" => lastReq.kind = "Spawn" /\ lastReq.outcome = "SendErr"
       /\ hist.fail = "move_ws" => lastReq.kind = "MoveWindowToWorkspace"
       /\ hist.fail \in {"connect", "pre_query"} => lastReq.rec # cur
  /\ ( /\ lastReq.rec = hist.rec
       /\ \/ lastReq.kind = "Spawn" /\ lastReq.outcome = "ReplyErr"
          \/ lastReq.kind \in PlacementKinds \ {"MoveWindowToWorkspace"}
             /\ lastReq.outcome # "Handled" )
     => result # "Err"
  /\ hist.outcome \in {"NotAcked", "TimedOut"} => result # "Err" /\ cur = hist.rec + 1

\* the pass has ended with an error that is not a failed move-to-workspace
C5_Witness ==
  /\ result = "Err"
  /\ ~hist.bootstrap
  /\ hist.fail = "poll_query"
  /\ hist.polls > 0

\* C6 as stated: with no file at the snapshot path restore_session performs a
\* Save, sends no spawn or placement, and does not return an error.
C6_Original ==
  (hist.bootstrap /\ pc = "done") =>
    /\ result = "Ok"
    /\ lastReq = NoReq
    /\ file = FileOf(Serialize(SessionWindows(live, workspaces)))

\* C6 amended: with no file at the snapshot path restore_session calls
\* save_session and returns what it returns (an error exactly when a step of
\* the Save failed, else the file holds the live session); it reads no
\* snapshot and sends no spawn or placement.
C6_BootstrapSaves ==
  hist.bootstrap =>
    /\ lastReq = NoReq
    /\ pending = {}
    /\ sorted_windows = <<>>
    /\ pc \in {"save_windows", "save_workspaces", "save_write", "done"}
    /\ pc = "done" =>
         /\ result = "Err" <=> hist.fail \in {"save_windows", "save_workspaces", "save_write"}
         /\ result = "Ok" <=> hist.fail = "None"
         /\ result = "Ok" => file = FileOf(Serialize(SessionWindows(live, workspaces)))

\* the bootstrap save has written a session with a window in it
C6_Witness ==
  /\ hist.bootstrap
  /\ pc = "done"
  /\ result = "Ok"
  /\ Len(file.json) > 0

-----------------------------------------------------------------------------
(* Replay order *)

\* the place of an output among None, Out1, Out2, Out3 in ascending order
OutputRank(o) ==
  CASE o = None -> 0
    [] o = Some(Out1) -> 1
    [] o = Some(Out2) -> 2
    [] o = Some(Out3) -> 3

IndexRank(i) == IF i = None THEN 0 ELSE i[1] + 1

\* record a comes strictly before record b in (workspace_output, workspace_idx)
PairBefore(a, b) ==
  \/ OutputRank(a.workspace_output) < OutputRank(b.workspace_output)
  \/ /\ OutputRank(a.workspace_output) = OutputRank(b.workspace_output)
     /\ IndexRank(a.workspace_idx) < IndexRank(b.workspace_idx)

SamePair(a, b) ==
  a.workspace_output = b.workspace_output /\ a.workspace_idx = b.workspace_idx

Replaying == file.exists /\ ~file.empty /\ pc # "restore" /\ ~hist.bootstrap

\* C7: the replay list is the snapshot's records (each exactly once) in
\* ascending order of (workspace_output, workspace_idx), output first, absent
\* before present; with distinct pairs the order is strictly ascending.
C7_ReplayOrderAscending ==
  Replaying =>
    LET snap == Deserialize(file.json)
        n == Len(sorted_windows)
    IN /\ n = Len(snap)
       /\ \A r \in {snap[i] : i \in 1..Len(snap)} :
            Cardinality({i \in 1..n : sorted_windows[i] = r})
              = Cardinality({i \in 1..Len(snap) : snap[i] = r})
       /\ \A i, j \in 1..n : i < j => ~PairBefore(sorted_windows[j], sorted_windows[i])
       /\ (\A i, j \in 1..Len(snap) : i # j => ~SamePair(snap[i], snap[j]))
            => \A i, j \in 1..n : i < j => PairBefore(sorted_windows[i], sorted_windows[j])

\* three records with distinct pairs were saved in descending order and are
\* replayed, an absent output and an absent index among them
C7_Witness ==
  /\ Replaying
  /\ Len(sorted_windows) = 3
  /\ LET snap == Deserialize(file.json) IN
     /\ PairBefore(snap[3], snap[2])
     /\ PairBefore(snap[2], snap[1])
     /\ snap[3].workspace_output = None
     /\ snap[2].workspace_idx = None
     /\ snap[2].workspace_output # None
  /\ cur = 4

\* the records of the snapshot on output o with an index below i
LowerOnOutput(o, i) ==
  {j \in 1..Len(sorted_windows) :
     /\ sorted_windows[j].workspace_output = o
     /\ sorted_windows[j].workspace_idx # None
     /\ sorted_windows[j].workspace_idx[1] < i}

IndexedMoveJustSent ==
  /\ lastReq.kind = "MoveWindowToWorkspace"
  /\ lastReq.rec = hist.rec
  /\ lastReq.arg[1] = "Index"

-----------------------------------------------------------------------------
(* Properties of save_session *)

SaveSucceeded == caller = "save_session" /\ pc = "done" /\ result = "Ok"

\* C9: in every saved record launch_command is the config.launch value for
\* the window's app_id when there is one, the app_id itself when there is
\* none, and absent when app_id is absent; so it is present exactly when
\* app_id is.
C9_LaunchCommandResolution ==
  SaveSucceeded =>
    \A i \in 1..Len(file.json) :
      LET app == sv_windows[1][i].app_id
          rec == file.json[i]
      IN /\ app = None => rec.launch_command = JNull
         /\ (app # None /\ app[1] \in DOMAIN config.launch)
              => rec.launch_command = JStr(config.launch[app[1]])
         /\ (app # None /\ app[1] \notin DOMAIN config.launch)
              => rec.launch_command = JStr(app[1])
         /\ rec.launch_command = JNull <=> rec.app_id = JNull

\* a save wrote a mapped, an unmapped and an app_id-less window
C9_Witness ==
  /\ SaveSucceeded
  /\ \E i, j \in 1..Len(file.json) :
       /\ file.json[i].app_id = JStr(AppA)
       /\ file.json[i].launch_command = JStr(CmdX)
       /\ file.json[j].app_id = JStr(AppB)
  /\ config.launch # NoLaunchMap

\* C10: after a successful save the snapshot holds one record per window of
\* the list the save's query returned, in that order, and nothing else; with
\* an empty list it is the empty session.
C10_SnapshotIsLiveList ==
  SaveSucceeded =>
    LET ws == sv_windows[1] IN
    /\ file.exists
    /\ ~file.empty
    /\ Len(file.json) = Len(ws)
    /\ \A i \in 1..Len(ws) :
         /\ file.json[i].id = JNum(ws[i].id)
         /\ file.json[i].app_id = OptStrToJson(ws[i].app_id)
         /\ file.json[i].title = OptStrToJson(ws[i].title)
         /\ file.json[i].is_focused = JBool(ws[i].is_focused)
         /\ file.json[i].window_size = JPair(ws[i].window_size)
    /\ ws = <<>> => file.json = <<>>

\* a save of two windows replaced a snapshot that held a record
C10_Witness ==
  /\ SaveSucceeded
  /\ hist.prev_json # <<>>
  /\ Len(sv_windows[1]) = 2
  /\ sv_windows[1][1].app_id # sv_windows[1][2].app_id
  /\ Len(live) < 2

-----------------------------------------------------------------------------
(* Properties of the replay loop and of the placement of one window *)

EndOutcomes ==
  {"Done", "TimedOut", "NotAcked", "NoTarget", "NoCommand", "Skipped", "NoAppId"}

\* the request r is one after which the record it belongs to sends nothing more
PlacementOver(r) ==
  \/ r.kind \in {"None", "Spawn", "SetWindowHeight"}
  \/ r.kind = "MoveWindowToWorkspace" /\ sorted_windows[r.rec].window_size = None

SequentialStep ==
  /\ lastReq' # lastReq =>
       /\ InSpawnCall
       /\ hist.rec = cur
       /\ lastReq'.rec = cur
       /\ lastReq'.kind = "Spawn" =>
            pc = "spawn" /\ lastReq.rec < cur /\ PlacementOver(lastReq)
       /\ lastReq'.kind # "Spawn" => lastReq.rec = cur
  /\ (cur' # cur /\ pc # "restore") =>
       /\ cur' = cur + 1
       /\ pc' = "loop"
       /\ hist'.rec = cur
       /\ hist'.outcome \in EndOutcomes

\* C13: restore is strictly sequential: every request is sent for the record
\* the loop is at; a record's spawn is sent only when the last request of the
\* pass belongs to an earlier record and ended that record's placement; every
\* other request follows a request of the same record; the loop moves on by
\* one record only when the record's turn has ended (Done, TimedOut, skipped,
\* not acknowledged, nothing to place).
C13_StrictlySequential == [][SequentialStep]_vars

\* the second record is spawned after the first was placed and resized
C13_Witness ==
  /\ lastReq.kind = "Spawn"
  /\ lastReq.rec = 2
  /\ pc = "poll_sleep"
  /\ \E i \in 1..Len(live) : owner[live[i].id] = 1 /\ live[i].window_size = Size1

\* C14: the reference of a move-to-workspace is the record's workspace_name
\* whenever the name is present (whatever the index), and the record's
\* workspace_idx only when the name is absent and the index present.
C14_NameBeforeIndex ==
  lastReq.kind = "MoveWindowToWorkspace" =>
    LET w == sorted_windows[lastReq.rec] IN
    /\ HasTarget(w)
    /\ w.workspace_name # None => lastReq.arg = <<"Name", w.workspace_name[1]>>
    /\ (w.workspace_name = None /\ w.workspace_idx # None)
         => lastReq.arg = <<"Index", w.workspace_idx[1]>>

\* a record with both a name and an index was moved by its name, and the
\* window is on the workspace of that name
C14_Witness ==
  /\ lastReq.kind = "MoveWindowToWorkspace"
  /\ lastReq.outcome = "Handled"
  /\ lastReq.arg[1] = "Name"
  /\ sorted_windows[lastReq.rec].workspace_idx # None
  /\ \E k \in 1..Len(workspaces) :
       /\ workspaces[k].name = Some(lastReq.arg[2])
       /\ WindowById(lastReq.win[1]).workspace_id = Some(workspaces[k].id)

\* C15: a record whose launch_command is absent is never replayed: no request
\* carries its position, spawn_and_move_window is never entered for it, no
\* process or window is made for it, and the loop goes on to the next record.
C15_NoCommandNeverReplayed ==
  /\ \A i \in 1..Len(sorted_windows) :
       sorted_windows[i].launch_command = None =>
         /\ lastReq.rec # i
         /\ InSpawnCall => cur # i
         /\ \A p \in pending : p.owner # i
         /\ \A id \in DOMAIN owner : owner[id] # i
  /\ hist.outcome = "NoCommand" =>
       /\ sorted_windows[hist.rec].launch_command = None
       /\ result # "Err"
       /\ cur = hist.rec + 1
       /\ pc \in {"loop", "done"}

\* a record with an app_id and no launch_command was passed over, and the
\* record after it is being replayed
C15_Witness ==
  /\ hist.rec >= 2
  /\ sorted_windows[hist.rec - 1].launch_command = None
  /\ sorted_windows[hist.rec - 1].app_id # None
  /\ lastReq.kind = "Spawn"
  /\ lastReq.rec = hist.rec

PlacementStep ==
  (lastReq' # lastReq /\ lastReq'.kind \in PlacementKinds) =>
    LET w == sorted_windows[cur]
        r == lastReq'
    IN /\ r.rec = cur
       /\ lastReq.rec = cur
       /\ new_window # None
       /\ r.win = new_window
       /\ r.kind = "MoveWindowToMonitor" =>
            /\ lastReq.kind = "Spawn"
            /\ w.workspace_output # None
            /\ r.arg = w.workspace_output[1]
       /\ r.kind = "MoveWindowToWorkspace" =>
            lastReq.kind = IF w.workspace_output # None THEN "MoveWindowToMonitor" ELSE "Spawn"
       /\ r.kind = "SetWindowWidth" =>
            /\ lastReq.kind = "MoveWindowToWorkspace"
            /\ lastReq.outcome = "Handled"
            /\ w.window_size # None
            /\ r.arg = w.window_size[1][1]
       /\ r.kind = "SetWindowHeight" =>
            /\ lastReq.kind = "SetWindowWidth"
            /\ r.arg = w.window_size[1][2]

PlacementGoesOn ==
  /\ lastReq.kind = "MoveWindowToMonitor" => pc = "move_ws" /\ result = "running"
  /\ lastReq.kind = "SetWindowWidth" => pc = "set_height" /\ result = "running"
  /\ (lastReq.kind = "MoveWindowToWorkspace" /\ lastReq.outcome = "Handled"
        /\ lastReq.rec = cur /\ sorted_windows[cur].window_size # None)
       => pc = "set_width"
  /\ (lastReq.kind = "SetWindowHeight" /\ lastReq.rec = hist.rec) =>
       result # "Err" /\ hist.outcome = "Done"

\* C18: for a found window the placement requests are sent in the order
\* move-to-output (only with a recorded output), move-to-workspace, set-width,
\* set-height (the last two only with a recorded size); whatever comes of the
\* move-to-output the move-to-workspace is next, whatever comes of the
\* set-width the set-height is next, neither ends the call with an error, and
\* a resize is sent only after the move-to-workspace of the window was handled.
C18_PlacementOrder == [][PlacementStep]_vars /\ []PlacementGoesOn

\* the set-height was sent and handled after the move-to-output and the
\* set-width of the same window both failed: the window has its recorded
\* height, not its recorded width, and is not on the recorded output
C18_Witness ==
  /\ lastReq.kind = "SetWindowHeight"
  /\ lastReq.outcome = "Handled"
  /\ lastReq.rec = hist.rec
  /\ sorted_windows[lastReq.rec].workspace_output # None
  /\ WindowById(lastReq.win[1]).window_size = <<1, Size1[2]>>
  /\ OutputOfWindow(lastReq.win[1]) # sorted_windows[lastReq.rec].workspace_output

\* C19: for a record with neither workspace_name nor workspace_idx the spawn
\* is sent and nothing else: no window-list poll and no placement request
\* follows for it, whatever output or size it records, and the call returns
\* success.
C19_NoTargetSpawnOnly ==
  /\ \A i \in 1..Len(sorted_windows) :
       ~HasTarget(sorted_windows[i]) =>
         /\ lastReq.rec = i => lastReq.kind = "Spawn"
         /\ (InSpawnCall /\ cur = i) => pc \in {"connect", "pre_query", "spawn"}
  /\ hist.outcome = "NoTarget" =>
       /\ ~HasTarget(sorted_windows[hist.rec])
       /\ lastReq.kind = "Spawn"
       /\ lastReq.rec = hist.rec
       /\ lastReq.outcome = "Handled"
       /\ hist.polls = 0
       /\ hist.slept_ms = 0
       /\ new_window = None
       /\ result # "Err"
       /\ cur = hist.rec + 1

\* a record with an output and a size but no workspace was spawned, and its
\* window has appeared and was left where the compositor put it
C19_Witness ==
  /\ hist.rec >= 1
  /\ ~HasTarget(sorted_windows[1])
  /\ sorted_windows[1].workspace_output # None
  /\ sorted_windows[1].window_size # None
  /\ \E i \in 1..Len(live) : owner[live[i].id] = 1 /\ live[i].window_size = <<1, 1>>
  /\ pc = "done"
  /\ result = "Ok"

-----------------------------------------------------------------------------
(* Properties of the snapshot format *)

\* C16: a session that is serialized as save_session does and deserialized as
\* restore_session does comes back with every record equal field for field
\* (the replay list is those records in replay order), for every session, one
\* with all optional fields absent and one with all fields present included.
C16_RoundTrip ==
  (written # <<>> /\ pc # "restore") =>
    /\ result # "Err"
    /\ sorted_windows = SortByKey(written)

-----------------------------------------------------------------------------
(* Properties of the spawn command *)

\* the record whose spawn was sent last is of a JetBrains IDE and has a title
JetSpawn ==
  /\ lastReq.kind = "Spawn"
  /\ StartsWith(sorted_windows[lastReq.rec].app_id[1], JetbrainsPrefix)
  /\ sorted_windows[lastReq.rec].title # None

\* i and j are the places of the first '[' and the first ']' of t, in this order
FirstPair(t, i, j) ==
  /\ i < j
  /\ t[i] = 91
  /\ t[j] = 93
  /\ \A k \in 1..(i - 1) : t[k] # 91
  /\ \A k \in 1..(j - 1) : t[k] # 93

\* the extracted path is the second word of the spawn command, when there is one
ExtractedNothing == Len(lastReq.arg) = 1
ExtractedPath == lastReq.arg[2]

\* C17: extract_jetbrains_project_path returns nothing when the title has no
\* '[' or no ']' or when the first '[' is not before the first ']' (also with
\* a well-formed pair later); otherwise it returns the text strictly between
\* the first '[' and the first ']', only a leading '~' replaced by the home
\* directory.
C17_ExtractProjectPath ==
  JetSpawn =>
    LET t == sorted_windows[lastReq.rec].title[1] IN
    /\ (~\E i, j \in 1..Len(t) : FirstPair(t, i, j)) => ExtractedNothing
    /\ \A i, j \in 1..Len(t) :
         FirstPair(t, i, j) =>
           LET between == SubSeq(t, i + 1, j - 1) IN
           /\ ~ExtractedNothing
           /\ (between = <<>> \/ between[1] # 126) => ExtractedPath = between
           /\ (between # <<>> /\ between[1] = 126 /\ home = Some(HomeDir))
                => ExtractedPath = HomeDir \o Tail(between)

\* C20: when the home directory lookup yields no result, a title whose
\* bracketed path starts with '~' still yields a path (the bracketed text
\* with '~' left as it is or replaced by the empty string), and the IDE is
\* spawned with that path as its argument.
C20_TildeWithoutHome ==
  (JetSpawn /\ home = None) =>
    LET t == sorted_windows[lastReq.rec].title[1] IN
    \A i, j \in 1..Len(t) :
      (FirstPair(t, i, j) /\ i + 1 < j /\ t[i + 1] = 126) =>
        /\ Len(lastReq.arg) = 2
        /\ lastReq.arg[1] = CmdX
        /\ lastReq.arg[2] \in {SubSeq(t, i + 1, j - 1), SubSeq(t, i + 2, j - 1)}

-----------------------------------------------------------------------------
(* Properties of the periodic driver *)

SavePcs == {"save_windows", "save_workspaces", "save_write"}

\* the main thread is inside the while loop (a periodic save included)
InLoop ==
  \/ pc \in {"main_sleep", "main_reset"}
  \/ pc \in SavePcs /\ caller = "main_periodic"

\* this step enters save_session
SaveStarts == pc' = "save_windows" /\ pc # "save_windows"

FinalSaveIsLast ==
  /\ caller = "main_final" => ~SaveStarts /\ caller' = "main_final"
  /\ pc \in {"shutdown", "exited"} =>
       /\ pc' \in {"shutdown", "exited"}
       /\ UNCHANGED <<file, sv_windows, sv_workspaces, live, workspaces>>
  /\ (pc' = "shutdown" /\ pc # "shutdown") => pc \in SavePcs /\ caller = "main_final"

ShutdownAfterFinalSave ==
  pc \in {"shutdown", "exited"} =>
    /\ term
    /\ caller = "main_final"
    /\ hist.fail = "None" =>
         file = FileOf(Serialize(SessionWindows(sv_windows[1], sv_workspaces[1])))

\* C11: once the termination flag is raised while the loop is running, the
\* driver eventually leaves the loop, performs the final save and shuts down;
\* the step into shutdown is the return of the final save, nothing touches the
\* snapshot or the compositor after it, and no save is started once the final
\* save has been started.
C11_TerminationThenFinalSave ==
  /\ (term /\ InLoop) ~> (pc = "exited")
  /\ [][FinalSaveIsLast]_vars
  /\ []ShutdownAfterFinalSave

\* the process has shut down after the loop had run, and the final save
\* wrote the windows that were alive
C11_Witness ==
  /\ pc = "exited"
  /\ elapsed > 0
  /\ hist.fail = "None"
  /\ Len(file.json) > 0

PeriodicSaveStep ==
  /\ (pc \in SavePcs /\ pc' \notin SavePcs /\ caller = "main_periodic") =>
       pc' = "main_reset" /\ InLoop'
  /\ (pc = "main_reset" /\ pc' # "main_reset") => pc' = "main_loop" /\ elapsed' = 0
  /\ (SaveStarts /\ caller' = "main_periodic") =>
       pc = "main_sleep" /\ elapsed' >= SaveIntervalMs
  /\ (pc = "main_sleep" /\ pc' = "main_loop") => elapsed' < SaveIntervalMs

\* the last periodic save failed and the clock is about to be reset
PeriodicSaveFailed ==
  pc = "main_reset" /\ caller = "main_periodic" /\ result = "Err" /\ hist.fail # "None"

\* C12: a save that fails in the driver never ends the process with an error:
\* after a failed periodic save the driver is still in the loop, resets the
\* clock, and starts the next save when the interval has elapsed again (unless
\* the termination flag is raised first); after a failed final save the
\* process still shuts down with a success result.
C12_FailedSaveNotFatal ==
  /\ [](pc = "exited" => result = "Ok")
  /\ [](result = "Err" => pc \notin {"done", "exited"})
  /\ [][PeriodicSaveStep]_vars
  /\ PeriodicSaveFailed ~> (term \/ (pc = "save_windows" /\ caller = "main_periodic"))
  /\ (pc \in SavePcs /\ caller = "main_final") ~> (pc = "exited" /\ result = "Ok")

\* a periodic save is started one second after a periodic save that failed
C12_Witness ==
  /\ pc = "save_windows"
  /\ caller = "main_periodic"
  /\ result = "Err"
  /\ args.save_interval = 1
  /\ elapsed = SaveIntervalMs
  /\ ~term

-----------------------------------------------------------------------------
(* Properties of the window search *)

\* C21: the window that receives a record's placement requests was created
\* by that record's own spawn, never by the spawn of an earlier record whose
\* window appeared late, also when both records have the same app_id.
C21_PlacedWindowIsOwnSpawn ==
  lastReq.kind \in PlacementKinds => owner[lastReq.win[1]] = lastReq.rec

-----------------------------------------------------------------------------
(* Properties of the empty snapshot file *)

\* restore_session reads an existing, empty snapshot file
EmptyFileRead == pc = "restore" /\ file = EmptyFile

\* restore_session has returned after reading an empty snapshot file
EmptyFileReturned == file = EmptyFile /\ ~hist.bootstrap /\ pc # "restore"

-----------------------------------------------------------------------------
(* Properties of a save whose query fails *)

\* save_session has not yet reached its write
BeforeWrite == pc \in {"save_windows", "save_workspaces"}

\* save_session returned because niri_windows or niri_workspaces failed
QueryFailed == pc = "done" /\ hist.fail \in {"save_windows", "save_workspaces"}

\* C23: no step of save_session before its write changes the snapshot file,
\* so a save_session that fails in the window-list query or in the
\* workspace-list query returns Err with the file as it was before the call.
C23_FailedQueryKeepsFile ==
  /\ [][BeforeWrite => file' = file]_vars
  /\ [](QueryFailed => result = "Err" /\ file.json = hist.prev_json)

C23_Witness ==
  /\ QueryFailed
  /\ hist.fail = "save_workspaces"
  /\ result = "Err"
  /\ sv_windows # None
  /\ file.json # <<>>

-----------------------------------------------------------------------------
(* Properties of the saves that follow the termination flag *)

\* main leaves the while loop
LeavesLoop == pc # "shutting_down" /\ pc' = "shutting_down"

\* the saves that ran after the flag was raised: those started after it and
\* the one in progress when it was raised
SavesRunAfterTerm == hist.saves_after_term + (IF hist.save_at_term THEN 1 ELSE 0)

\* C24: main leaves its loop only at the loop head and with the flag raised;
\* after the flag is raised at most one periodic save starts before the final
\* save, and when main exits the saves performed after the flag was raised
\* are 1 or 2.
C24_OneOrTwoSavesAfterTerm ==
  /\ [][LeavesLoop => pc = "main_loop" /\ term]_vars
  /\ [](hist.saves_after_term <= 2 /\ SavesRunAfterTerm <= 2)
  /\ [](caller = "main_final" /\ pc # "shutting_down" =>
          hist.saves_after_term \in {1, 2})
  /\ [](pc = "exited" => SavesRunAfterTerm \in {1, 2})

C24_Witness ==
  /\ pc = "exited"
  /\ args.save_interval = 1
  /\ hist.saves_after_term = 2
  /\ ~hist.save_at_term

====
